---- MODULE Spec2Model ----
(***************************************************************************)
(* Model of src/src/prob_prior_neigh.cpp: the Bayesian smoothing kernel    *)
(* bayes_estimator_class with its helpers build_neigh and                  *)
(* bayes_estimator_pixel.                                                  *)
(*                                                                         *)
(* Doubles are modelled as IEEE-754 values with exact finite arithmetic:   *)
(* a value is NaN, +Inf, -Inf or a finite number (n/d) * L^u, where        *)
(* L = ln 3 and u is the power of L.  The raster values of the model       *)
(* (multiples of 2500) make every argument of log a power of 3, zero,      *)
(* negative or infinite, so every logit is NaN, +-Inf or an integer        *)
(* multiple of L, sample variances are rational multiples of L^2, and no   *)
(* rounding is involved.  A sum of two non-zero finite values of different *)
(* powers of L has no such form; it is the value Unrep, which the inputs   *)
(* of the model never produce (invariant ExactArithmetic).  The sign of a  *)
(* zero is not modelled: every zero divisor of the code is the +0 of an    *)
(* exact cancellation (10000 - 10000, variance + v, sum / (1 - 1)), and    *)
(* the -0 of var over an empty vector (0 / -1) only meets a NaN mean.      *)
(* The missing sentinel is any NaN: std::isnan holds of R's NA as of NaN,  *)
(* and the value returned for a missing pixel is the C macro NAN.          *)
(***************************************************************************)
EXTENDS Integers, Sequences, FiniteSets, TLC

----------------------------------------------------------------------------
(* Doubles *)

\* Op applied to the values of x and y, each evaluated once.
Apply1(Op(_), x) == CHOOSE r \in {Op(a) : a \in {x}} : TRUE

Apply2(Op(_, _), x, y) == CHOOSE r \in {Op(a, b) : a \in {x}, b \in {y}} : TRUE

NaN == [k |-> "nan", n |-> 0, d |-> 1, u |-> 0]

Unrep == [k |-> "unrep", n |-> 0, d |-> 1, u |-> 0]

Inf(s) == [k |-> "inf", n |-> s, d |-> 1, u |-> 0]

Abs(a) == IF a < 0 THEN -a ELSE a

RECURSIVE Gcd(_, _)
GcdStep(a, b) == IF b = 0 THEN a ELSE Gcd(b, a % b)

Gcd(x, y) == Apply2(GcdStep, x, y)

Sgn(a) == IF a < 0 THEN -1 ELSE IF a = 0 THEN 0 ELSE 1

\* The finite value (n/d) * L^u in lowest terms, d > 0; zero has no unit.
Fin(n, d, u) ==
    IF n = 0 THEN [k |-> "fin", n |-> 0, d |-> 1, u |-> 0]
    ELSE CHOOSE r \in {[k |-> "fin", n |-> (Sgn(d) * n) \div g, d |-> Abs(d) \div g, u |-> u] :
                           g \in {Gcd(Abs(n), Abs(d))}} : TRUE

Num(n) == Fin(n, 1, 0)

isnan(a) == a.k = "nan"

IsInf(a) == a.k = "inf"

IsFinite(a) == a.k = "fin"

IsZero(a) == a.k = "fin" /\ a.n = 0

NegValue(a) == IF a.k \in {"fin", "inf"} THEN [a EXCEPT !.n = -a.n] ELSE a

Neg(x) == Apply1(NegValue, x)

AddValues(a, b) ==
    IF a.k = "unrep" \/ b.k = "unrep" THEN Unrep
    ELSE IF isnan(a) \/ isnan(b) THEN NaN
    ELSE IF IsInf(a) /\ IsInf(b) THEN (IF a.n = b.n THEN a ELSE NaN)
    ELSE IF IsInf(a) THEN a
    ELSE IF IsInf(b) THEN b
    ELSE IF a.n = 0 THEN b
    ELSE IF b.n = 0 THEN a
    ELSE IF a.u = b.u THEN Fin(a.n * b.d + b.n * a.d, a.d * b.d, a.u)
    ELSE Unrep

Add(x, y) == Apply2(AddValues, x, y)

Sub(x, y) == Add(x, Neg(y))

MulValues(a, b) ==
    IF a.k = "unrep" \/ b.k = "unrep" THEN Unrep
    ELSE IF isnan(a) \/ isnan(b) THEN NaN
    ELSE IF IsInf(a) \/ IsInf(b)
         THEN (IF a.n = 0 \/ b.n = 0 THEN NaN ELSE Inf(Sgn(a.n) * Sgn(b.n)))
    ELSE Fin(a.n * b.n, a.d * b.d, a.u + b.u)

Mul(x, y) == Apply2(MulValues, x, y)

DivValues(a, b) ==
    IF a.k = "unrep" \/ b.k = "unrep" THEN Unrep
    ELSE IF isnan(a) \/ isnan(b) THEN NaN
    ELSE IF IsInf(a) THEN (IF IsInf(b) THEN NaN
                           ELSE Inf(a.n * (IF b.n < 0 THEN -1 ELSE 1)))
    ELSE IF IsInf(b) THEN Num(0)
    ELSE IF b.n = 0 THEN (IF a.n = 0 THEN NaN ELSE Inf(Sgn(a.n)))
    ELSE Fin(a.n * b.d, a.d * b.n, a.u - b.u)

Div(x, y) == Apply2(DivValues, x, y)

\* e with 3^e = m, or -1 when m >= 1 is no power of 3.
RECURSIVE Log3(_)
Log3Step(m) ==
    IF m = 1 THEN 0
    ELSE IF m % 3 # 0 THEN -1
    ELSE CHOOSE r \in {IF e < 0 THEN -1 ELSE e + 1 : e \in {Log3(m \div 3)}} : TRUE

Log3(x) == Apply1(Log3Step, x)

\* std::log: log(3^e) = e * L.
logValue(a) ==
    IF a.k = "unrep" THEN Unrep
    ELSE IF isnan(a) THEN NaN
    ELSE IF IsInf(a) THEN (IF a.n > 0 THEN a ELSE NaN)
    ELSE IF a.n < 0 THEN NaN
    ELSE IF a.n = 0 THEN Inf(-1)
    ELSE IF a.u # 0 THEN Unrep
    ELSE IF a.d = 1 /\ Log3(a.n) >= 0 THEN Fin(Log3(a.n), 1, 1)
    ELSE IF a.n = 1 /\ Log3(a.d) >= 0 THEN Fin(-Log3(a.d), 1, 1)
    ELSE Unrep

log(x) == Apply1(logValue, x)

----------------------------------------------------------------------------
(* Matrices: a NumericMatrix / IntegerMatrix is its dimensions and its     *)
(* cells, addressed (row, column) from 0.                                  *)

Cells(r, c) == (0 .. r - 1) \X (0 .. c - 1)

Matrix(r, c, f) == [nrow |-> r, ncol |-> c, at |-> f]

\* The 0..10000 scale of the raster values.
Scale == 10000

\* The bounds tests of build_neigh's condition (InBoundsLowerOnly: the same
\* without the two upper tests).
InBoundsLowerOnly(data, data_i, data_j) ==
    data_i >= 0 /\ data_j >= 0

InBounds(data, data_i, data_j) ==
    data_i >= 0 /\ data_j >= 0 /\ data_i < data.nrow /\ data_j < data.ncol

\* The weight test of build_neigh's condition (variants: >= 0, and > 1).
WeightSelectedNonNegative(w) == w >= 0

WeightSelectedAboveOne(w) == w > 1

WeightSelected(w) == w > 0

\* data(data_i, data_j).  The accessor is unchecked: outside the matrix the
\* read is undefined behaviour, which the caller records (rreads) and the
\* top-level step turns into pc = "undefined"; the value is then unused.
DataAt(data, data_i, data_j) ==
    IF <<data_i, data_j>> \in DOMAIN data.at THEN data.at[<<data_i, data_j>>] ELSE NaN

\* The centre offset of a window dimension.
Centre(n) == n \div 2

\* The value pushed for a selected position (NeighValueUnweighted: the same
\* without the multiplication by the weight).
NeighValueUnweighted(v, w) == v

NeighValue(v, w) == Mul(v, Num(w))

\* The raster coordinate under window position k (row) or l (column).
DataIndex(centre, pos, n) == centre + pos - Centre(n)

\* The condition of build_neigh's if, evaluated left to right: the bounds
\* tests, then the weight test, then the missing-value test
\* (SelectedIgnoringMissing: the same without the missing-value test).
SelectedIgnoringMissing(data, window, i, j, k, l) ==
    /\ InBounds(data, DataIndex(i, k, window.nrow), DataIndex(j, l, window.ncol))
    /\ WeightSelected(window.at[<<k, l>>])

Selected(data, window, i, j, k, l) ==
    /\ InBounds(data, DataIndex(i, k, window.nrow), DataIndex(j, l, window.ncol))
    /\ WeightSelected(window.at[<<k, l>>])
    /\ ~isnan(DataAt(data, DataIndex(i, k, window.nrow), DataIndex(j, l, window.ncol)))

\* build_neigh's two loops from window position (k, l) on: the values pushed,
\* in the order of the pushes.
RECURSIVE NeighFrom(_, _, _, _, _, _)
NeighFrom(data, window, i, j, k, l) ==
    IF k >= window.nrow THEN <<>>
    ELSE IF l >= window.ncol THEN NeighFrom(data, window, i, j, k + 1, 0)
    ELSE IF Selected(data, window, i, j, k, l)
    THEN <<NeighValue(DataAt(data, DataIndex(i, k, window.nrow),
                             DataIndex(j, l, window.ncol)),
                      window.at[<<k, l>>])>>
             \o NeighFrom(data, window, i, j, k, l + 1)
    ELSE NeighFrom(data, window, i, j, k, l + 1)

build_neigh(data, window, i, j) == NeighFrom(data, window, i, j, 0, 0)

\* The window positions build_neigh reads for centre (i, j): the && chain
\* stops at the first false operand, so window(k, l) is read only after the
\* bounds tests pass.
WindowReads(data, window, i, j) ==
    {p \in Cells(window.nrow, window.ncol) :
        InBounds(data, DataIndex(i, p[1], window.nrow), DataIndex(j, p[2], window.ncol))}

\* The raster coordinates build_neigh reads for centre (i, j): data(data_i,
\* data_j) is read only after the bounds tests and the weight test pass.
RasterReads(data, window, i, j) ==
    {<<DataIndex(i, p[1], window.nrow), DataIndex(j, p[2], window.ncol)>> :
        p \in {q \in WindowReads(data, window, i, j) : WeightSelected(window.at[q])}}

RECURSIVE SumFrom(_, _)
SumFrom(s, t) == IF t > Len(s) THEN Num(0) ELSE Add(s[t], SumFrom(s, t + 1))

\* Rcpp::mean: the sum over the count, 0 / 0 for an empty vector; its second
\* pass adds the mean of the deviations, which is 0 in exact arithmetic
\* (meanGuarded: a mean that answers 0 for an empty vector).
meanGuarded(s) == IF Len(s) = 0 THEN Num(0) ELSE Div(SumFrom(s, 1), Num(Len(s)))

mean(s) == Div(SumFrom(s, 1), Num(Len(s)))

RECURSIVE SumSqDevFrom(_, _, _)
SumSqDevFrom(s, average, t) ==
    IF t > Len(s) THEN Num(0)
    ELSE Add(Mul(Sub(s[t], average), Sub(s[t], average)), SumSqDevFrom(s, average, t + 1))

\* Rcpp::var: the sum of squared deviations from the mean over count - 1
\* (varPopulation: the same over count).
varPopulation(s) ==
    Apply1(LAMBDA average : Div(SumSqDevFrom(s, average, 1), Num(Len(s))), mean(s))

var(s) ==
    Apply1(LAMBDA average : Div(SumSqDevFrom(s, average, 1), Num(Len(s) - 1)), mean(s))

\* The logit transform ln(x / (10000 - x)).
logit(x) == log(Div(x, Sub(Num(Scale), x)))

\* The value returned for a missing pixel (MissingResultFill: the mean of
\* the neighbours' logits instead).
MissingResultFill(neigh) == mean([t \in 1 .. Len(neigh) |-> logit(neigh[t])])

MissingResult(neigh) == NaN

\* The blend w1 * x + w2 * mean(log_neigh).
Blend(x, v, m, variance) ==
    LET w1 == Div(v, Add(variance, v))
        w2 == Div(variance, Add(variance, v))
    IN  Add(Mul(w1, x), Mul(w2, m))

bayes_estimator_pixel(p, neigh, variance) ==
    IF isnan(p) THEN MissingResult(neigh)
    ELSE Apply1(LAMBDA log_neigh :
                    Apply2(LAMBDA x, v : Blend(x, v, mean(log_neigh), variance),
                           logit(p), var(log_neigh)),
                [t \in 1 .. Len(neigh) |-> logit(neigh[t])])

----------------------------------------------------------------------------
(* Inputs of one call of bayes_estimator_class *)

MaxRows == 2

MaxCols == 2

MaxWin == 2

MaxWeight == 2

MaxScale == 2

\* Raster values: missing, the two logit singularities (0 and 10000), and
\* two interior values (logit -L and 0).
RasterValues == {NaN, Num(0), Num(2500), Num(5000), Num(10000)}

Weights == -1 .. MaxWeight

Uniform(r, c, v) == Matrix(r, c, [p \in Cells(r, c) |-> v])

\* The r x c matrix holding s at cell q and b elsewhere.
OneOff(r, c, b, q, s) == Matrix(r, c, [p \in Cells(r, c) |-> IF p = q THEN s ELSE b])

\* The r x c matrix holding s at the first cell, t at the last and b elsewhere.
TwoOff(r, c, b, s, t) ==
    Matrix(r, c, [p \in Cells(r, c) |->
                     IF p = <<0, 0>> THEN s ELSE IF p = <<r - 1, c - 1>> THEN t ELSE b])

\* Rasters of every shape up to MaxRows x MaxCols (empty ones included):
\* all missing, all 2500 or all 5000; all 5000 but for the first cell; and
\* those with a missing value or a singularity in the first cell and 2500 in
\* the last.
Rasters ==
    UNION {{Uniform(sh[1], sh[2], v) : v \in {NaN, Num(2500), Num(5000)}}
               \cup {OneOff(sh[1], sh[2], Num(5000), <<0, 0>>, s) : s \in RasterValues}
               \cup {TwoOff(sh[1], sh[2], Num(5000), s, Num(2500)) :
                        s \in {NaN, Num(10000)}} :
           sh \in (0 .. MaxRows) \X (0 .. MaxCols)}

\* The plus-shaped window: weight 1 on the centre row and the centre column.
PlusWindow(r, c) ==
    Matrix(r, c, [p \in Cells(r, c) |->
                     IF p[1] = Centre(r) \/ p[2] = Centre(c) THEN 1 ELSE 0])

\* Windows of every shape up to MaxWin x MaxWin (empty ones included, odd and
\* even) and of the usual 3 x 3 shape: uniform ones of every weight, the
\* plus, a single weight 1 at the centre or at the first position, and all
\* ones around a zero centre.
Windows ==
    UNION {{Uniform(sh[1], sh[2], w) : w \in Weights}
               \cup {PlusWindow(sh[1], sh[2]),
                     OneOff(sh[1], sh[2], 0, <<Centre(sh[1]), Centre(sh[2])>>, 1),
                     OneOff(sh[1], sh[2], 0, <<0, 0>>, 1),
                     OneOff(sh[1], sh[2], 1, <<Centre(sh[1]), Centre(sh[2])>>, 0)} :
           sh \in ((0 .. MaxWin) \X (0 .. MaxWin)) \cup {<<3, 3>>}}

\* Variances in the logit space, in units of L^2: zero, positive, and the
\* negative of a neighbour variance the rasters produce (variance + v = 0).
Variances == {Num(0), Fin(1, 1, 2), Fin(-1, 2, 2)}

\* The two scenarios of the specification: the 2x2 all-5000 raster under the
\* 3x3 plus window, and the 3x3 all-5000 raster with a missing centre under
\* the 3x3 all-ones window, with variance 0.1.
AllFiveThousand == Uniform(2, 2, Num(5000))

MissingCentre == OneOff(3, 3, Num(5000), <<1, 1>>, NaN)

Tenth == Fin(1, 10, 0)

Scenarios ==
    {<<AllFiveThousand, PlusWindow(3, 3), Tenth>>,
     <<MissingCentre, Uniform(3, 3, 1), Tenth>>,
     <<MissingCentre, Uniform(3, 3, 1), Fin(1, 1, 2)>>}

Inputs == (Rasters \X Windows \X Variances) \cup Scenarios

----------------------------------------------------------------------------
(* bayes_estimator_class *)

VARIABLES data, window, variance, result, i, j, k, pc, written, rreads, wreads, neigh

vars == <<data, window, variance, result, i, j, k, pc, written, rreads, wreads, neigh>>

\* The length of the result vector (ResultLenRows: nrows alone).
ResultLenRows(d) == d.nrow

ResultLen(d) == d.nrow * d.ncol

\* k++ : the index of the next write (NextIndexStuck: k left as it is).
NextIndexStuck(kk) == kk

NextIndex(kk) == kk + 1

Init ==
    /\ \E in \in Inputs : data = in[1] /\ window = in[2] /\ variance = in[3]
    /\ result = [t \in 0 .. ResultLen(data) - 1 |-> Num(0)]
    /\ i = 0
    /\ j = 0
    /\ k = 0
    /\ pc = "loop"
    /\ written = <<>>
    /\ rreads = {}
    /\ wreads = {}
    /\ neigh = <<>>

\* One iteration of the inner loop: result(k++) = bayes_estimator_pixel(...).
\* A raster read outside the matrix is undefined behaviour; a result index
\* outside the vector makes the checked accessor throw index_out_of_bounds.
Pixel ==
    /\ pc = "loop"
    /\ i < data.nrow
    /\ j < data.ncol
    /\ \E g \in {build_neigh(data, window, i, j)} :
       \E sx \in {bayes_estimator_pixel(data.at[<<i, j>>], g, variance)} :
           /\ neigh' = g
           /\ rreads' = rreads \cup RasterReads(data, window, i, j)
           /\ wreads' = wreads \cup WindowReads(data, window, i, j)
           /\ pc' = IF ~(rreads' \subseteq DOMAIN data.at) THEN "undefined"
                    ELSE IF k \notin DOMAIN result THEN "thrown"
                    ELSE pc
           /\ result' = IF pc' = "loop" THEN [result EXCEPT ![k] = sx] ELSE result
           /\ written' = IF pc' = "loop" THEN Append(written, k) ELSE written
           /\ k' = IF pc' = "loop" THEN NextIndex(k) ELSE k
           /\ j' = IF pc' = "loop" THEN j + 1 ELSE j
    /\ UNCHANGED <<data, window, variance, i>>

\* The inner loop ends: next row.
RowEnd ==
    /\ pc = "loop"
    /\ i < data.nrow
    /\ j >= data.ncol
    /\ i' = i + 1
    /\ j' = 0
    /\ UNCHANGED <<data, window, variance, result, k, pc, written, rreads, wreads, neigh>>

\* The outer loop ends: return result.
Return ==
    /\ pc = "loop"
    /\ i >= data.nrow
    /\ pc' = "done"
    /\ UNCHANGED <<data, window, variance, result, i, j, k, written, rreads, wreads, neigh>>

Next == Pixel \/ RowEnd \/ Return

Spec == Init /\ [][Next]_vars

\* The call is a sequential loop: it keeps stepping until it returns.
FairSpec == Spec /\ WF_vars(Next)

\* Every double of the state has the exact form the model computes with: an
\* Unrep operand makes every result Unrep, so none arose in between either.
ExactArithmetic ==
    /\ \A t \in DOMAIN result : result[t].k # "unrep"
    /\ \A t \in DOMAIN neigh : neigh[t].k # "unrep"

----------------------------------------------------------------------------
(* Properties *)

\* Row-major position of cell (a, b) in the output.
Position(a, b) == a * data.ncol + b

\* The inner loop has just written the output of cell (i, j - 1): neigh is
\* that cell's neighbour list and result[k - 1] its output.
JustWrote == pc = "loop" /\ j > 0 /\ k > 0

LastValue == data.at[<<i, j - 1>>]

LastOutput == result[k - 1]

\* C1: every cell whose raster value is missing has the missing sentinel
\* (NaN) as its output, whatever its neighbour list holds.
C1_MissingStaysMissing ==
    \A c \in Cells(data.nrow, data.ncol) :
        (Position(c[1], c[2]) < k /\ isnan(data.at[c]))
            => isnan(result[Position(c[1], c[2])])

C1_Witness ==
    /\ JustWrote
    /\ isnan(LastValue)
    /\ Len(neigh) >= 2
    /\ isnan(LastOutput)

\* The window positions in row-major scan order.
WindowScan(w) ==
    [t \in 1 .. w.nrow * w.ncol |-> <<(t - 1) \div w.ncol, (t - 1) % w.ncol>>]

\* The positions of window w that qualify for centre (a, b) of raster d: the
\* raster coordinate is inside the raster, the weight is positive and the
\* raster value there is not missing.
Qualifies(d, w, a, b, p) ==
    LET data_i == a + p[1] - (w.nrow \div 2)
        data_j == b + p[2] - (w.ncol \div 2)
    IN  /\ 0 <= data_i /\ data_i < d.nrow
        /\ 0 <= data_j /\ data_j < d.ncol
        /\ w.at[p] > 0
        /\ d.at[<<data_i, data_j>>].k # "nan"

ExpectedNeigh(d, w, a, b) ==
    LET Test(p) == Qualifies(d, w, a, b, p)
        sel == SelectSeq(WindowScan(w), Test)
    IN  [t \in 1 .. Len(sel) |->
            Mul(d.at[<<a + sel[t][1] - (w.nrow \div 2), b + sel[t][2] - (w.ncol \div 2)>>],
                Num(w.at[sel[t]]))]

\* C2: build_neigh returns exactly the weighted values of the qualifying
\* window positions, in row-major scan order, for windows of any shape.
C2_NeighIsSelection ==
    JustWrote => neigh = ExpectedNeigh(data, window, i, j - 1)

\* A gathered list that skipped both a non-positive weight and a missing
\* cell lying inside the raster, under an even-sized or an odd-sized window.
C2_Witness ==
    /\ JustWrote
    /\ Len(neigh) >= 2
    /\ \E p \in Cells(window.nrow, window.ncol) :
           /\ InBounds(data, DataIndex(i, p[1], window.nrow), DataIndex(j - 1, p[2], window.ncol))
           /\ window.at[p] <= 0
    /\ \E p \in Cells(window.nrow, window.ncol) :
           /\ InBounds(data, DataIndex(i, p[1], window.nrow), DataIndex(j - 1, p[2], window.ncol))
           /\ window.at[p] > 0
           /\ isnan(data.at[<<DataIndex(i, p[1], window.nrow),
                              DataIndex(j - 1, p[2], window.ncol)>>])

\* C3: a cell whose neighbour list is empty has a not-a-number output, also
\* when its own value is valid.
C3_EmptyNeighIsNaN ==
    (JustWrote /\ neigh = <<>>) => isnan(LastOutput)

C3_Witness ==
    /\ JustWrote
    /\ neigh = <<>>
    /\ IsFinite(LastValue)
    /\ \E p \in Cells(window.nrow, window.ncol) : window.at[p] > 0
    /\ isnan(LastOutput)

\* C4: the output has length nrow * ncol; positions are written once each in
\* increasing order, the write for cell (i, j) going to position i * ncol + j;
\* on return every position holds the estimate of its own cell.
C4_RowMajorOutput ==
    /\ DOMAIN result = 0 .. (data.nrow * data.ncol - 1)
    /\ written = [t \in 1 .. Len(written) |-> t - 1]
    /\ JustWrote => written[Len(written)] = Position(i, j - 1)
    /\ pc = "done" =>
           /\ Len(written) = data.nrow * data.ncol
           /\ \A c \in Cells(data.nrow, data.ncol) :
                  result[Position(c[1], c[2])] =
                      bayes_estimator_pixel(data.at[c],
                                            build_neigh(data, window, c[1], c[2]),
                                            variance)

C4_Witness ==
    /\ pc = "done"
    /\ data.nrow >= 2
    /\ data.ncol >= 2
    /\ result[Position(0, 1)] # result[Position(1, 0)]

\* C5: the call never faults and always returns: every anomaly ends up as a
\* NaN or an infinity in the output.
C5_NoFaultAndReturns ==
    /\ [](pc \notin {"thrown", "undefined"})
    /\ <>(pc = "done")

\* A returned output with an infinity and a NaN under a negative variance.
C5_Witness ==
    /\ pc = "done"
    /\ variance.n < 0
    /\ \E t \in DOMAIN result : IsInf(result[t])
    /\ \E t \in DOMAIN result : isnan(result[t])

InMissingCentreScenario ==
    /\ data = MissingCentre
    /\ window = Uniform(3, 3, 1)
    /\ variance.k = "fin"
    /\ variance.n > 0

\* C6: in the 3x3 all-5000 raster with a missing centre, under the 3x3
\* all-ones window and a positive variance, the centre's output is missing
\* and every other output is finite: each neighbour list drops the centre
\* and keeps at least two values.
C6_MissingDoesNotSpread ==
    InMissingCentreScenario =>
        /\ \A c \in Cells(3, 3) :
               Position(c[1], c[2]) < k =>
                   IF c = <<1, 1>> THEN isnan(result[Position(c[1], c[2])])
                   ELSE IsFinite(result[Position(c[1], c[2])])
        /\ JustWrote =>
               /\ Len(neigh) >= 2
               /\ \A t \in DOMAIN neigh : ~isnan(neigh[t])

C6_Witness ==
    /\ InMissingCentreScenario
    /\ pc = "done"
    /\ isnan(result[4])
    /\ \A t \in DOMAIN result \ {4} : IsFinite(result[t])

InPlusScenario ==
    /\ data = AllFiveThousand
    /\ window = PlusWindow(3, 3)
    /\ variance = Tenth

\* C7: for the 2x2 all-5000 raster, the 3x3 plus window and variance 0.1
\* every output is 0.
C7_PlusScenarioAllZero ==
    InPlusScenario =>
        \A t \in DOMAIN result : t < k => result[t] = Num(0)

C7_Witness ==
    /\ InPlusScenario
    /\ pc = "done"
    /\ \A t \in 0 .. 3 : result[t] = Num(0)

\* The window with every weight multiplied by c.
ScaledWindow(w, c) == Matrix(w.nrow, w.ncol, [p \in DOMAIN w.at |-> c * w.at[p]])

\* C8: multiplying every window weight by a positive integer c leaves the
\* selected positions unchanged and multiplies every gathered value by c.
C8_WeightsAreMultipliers ==
    JustWrote =>
        \A c \in 1 .. MaxScale :
            /\ {p \in Cells(window.nrow, window.ncol) :
                    Selected(data, ScaledWindow(window, c), i, j - 1, p[1], p[2])}
                 = {p \in Cells(window.nrow, window.ncol) :
                        Selected(data, window, i, j - 1, p[1], p[2])}
            /\ build_neigh(data, ScaledWindow(window, c), i, j - 1)
                 = [t \in 1 .. Len(neigh) |-> Mul(neigh[t], Num(c))]

\* The output is not invariant under the scaling: an all-5000 raster whose
\* output changes when the weights are doubled.
C8_Witness ==
    /\ JustWrote
    /\ \A c \in DOMAIN data.at : data.at[c] = Num(5000)
    /\ neigh # <<>>
    /\ bayes_estimator_pixel(LastValue,
                             build_neigh(data, ScaledWindow(window, 2), i, j - 1),
                             variance) # LastOutput

\* C9: a non-missing cell whose neighbour list has exactly one element has a
\* NaN (or infinite) output.
C9_SingleNeighIsNaN ==
    (JustWrote /\ ~isnan(LastValue) /\ Len(neigh) = 1)
        => (isnan(LastOutput) \/ IsInf(LastOutput))

\* A valid cell under the 1x1 window of weight 1.
C9_Witness ==
    /\ JustWrote
    /\ IsFinite(LastValue)
    /\ window = Uniform(1, 1, 1)
    /\ Len(neigh) = 1
    /\ isnan(LastOutput)

\* C10: every raster read of build_neigh is inside the raster, every window
\* read inside the window, every result write inside the result.
C10_AccessesInBounds ==
    /\ \A p \in rreads : 0 <= p[1] /\ p[1] < data.nrow /\ 0 <= p[2] /\ p[2] < data.ncol
    /\ \A p \in wreads : 0 <= p[1] /\ p[1] < window.nrow /\ 0 <= p[2] /\ p[2] < window.ncol
    /\ \A t \in DOMAIN written : 0 <= written[t] /\ written[t] < data.nrow * data.ncol
    /\ pc \notin {"thrown", "undefined"}

\* A finished call with a window larger than the raster, some of whose
\* positions fell outside the raster.
C10_Witness ==
    /\ pc = "done"
    /\ window.nrow > data.nrow
    /\ window.ncol > data.ncol
    /\ rreads # {}
    /\ wreads # Cells(window.nrow, window.ncol)
    /\ Len(written) = data.nrow * data.ncol
    /\ Len(written) > 1

====
